---- MODULE Spec2Model ----
(***************************************************************************)
(* MIDI-Normalizer: the normalization pipeline of src/src/normalize.ts     *)
(* (removeSilent, normalizeVelocities, normalizeChannels, addBuffers) and  *)
(* the driver of src/src/index.ts that applies the stages to every loaded  *)
(* file in a fixed order.                                                  *)
(*                                                                         *)
(* Conventions.                                                            *)
(*  - A MIDI event is a record; optional fields of the TypeScript object   *)
(*    ("channel", "velocity", "text", ...) are optional fields of the      *)
(*    record, so `"channel" in event` is "channel" \in DOMAIN e.           *)
(*  - JavaScript arrays are 0-based, TLA+ sequences 1-based: track index   *)
(*    ti of the code is ti + 1 here, also as key of the name maps.         *)
(*  - A JavaScript string is a sequence of one-character strings.          *)
(*  - A number of seconds is a rational [num, den]; Math.round of a        *)
(*    quotient is computed exactly on integers (round half up).            *)
(***************************************************************************)
EXTENDS Integers, Sequences, FiniteSets, TLC

VARIABLES inputs, midis, config, pc, done, run, impl, prev, firstRun, err, written

vars == <<inputs, midis, config, pc, done, run, impl, prev, firstRun, err, written>>

(***************************************************************************)
(* Bounds of the model.                                                    *)
(***************************************************************************)
MaxTracks == 2
MaxEvents == 3
MaxRules == 2

(***************************************************************************)
(* Generic helpers.                                                        *)
(***************************************************************************)
EmptyMap == [k \in {} |-> 0]

Min(a, b) == IF a < b THEN a ELSE b

Max(a, b) == IF a > b THEN a ELSE b

\* Math.round(num / den) for den > 0: floor(num / den + 1/2).
MathRoundTrunc(num, den) == num \div den

MathRound(num, den) == (2 * num + den) \div (2 * den)

\* A removal that hands the deltaTime of the removed event to the next one.
SpliceRedistribute(s, i) ==
  IF i < Len(s)
  THEN SubSeq(s, 1, i - 1)
         \o <<[s[i + 1] EXCEPT !.deltaTime = @ + s[i].deltaTime]>>
         \o SubSeq(s, i + 2, Len(s))
  ELSE SubSeq(s, 1, i - 1)

\* Array.prototype.splice(i, 1) at the 1-based index i.
Splice(s, i) == SubSeq(s, 1, i - 1) \o SubSeq(s, i + 1, Len(s))

\* Array.prototype.splice(i, 0, ...items): items inserted after the first i elements.
SpliceIn(s, i, items) == SubSeq(s, 1, i) \o items \o SubSeq(s, i + 1, Len(s))

RECURSIVE Flatten(_)
Flatten(tracks) ==
  IF tracks = <<>> THEN <<>> ELSE Head(tracks) \o Flatten(Tail(tracks))

(***************************************************************************)
(* Events of the midi-file event model.                                    *)
(***************************************************************************)
NoteOn(ch, n, v, d) ==
  [type |-> "noteOn", channel |-> ch, noteNumber |-> n, velocity |-> v, deltaTime |-> d]

NoteOff(ch, n, v, d) ==
  [type |-> "noteOff", channel |-> ch, noteNumber |-> n, velocity |-> v, deltaTime |-> d]

Controller(ch, d) ==
  [type |-> "controller", channel |-> ch, deltaTime |-> d]

EndOfTrack(d) == [type |-> "endOfTrack", deltaTime |-> d]

SetTempo(us, d) == [type |-> "setTempo", microsecondsPerBeat |-> us, deltaTime |-> d]

InstrumentName(text, d) == [type |-> "instrumentName", text |-> text, deltaTime |-> d]

TrackName(text, d) == [type |-> "trackName", text |-> text, deltaTime |-> d]

HasChannel(e) == "channel" \in DOMAIN e

IsSilentNoteOn(e) == e.type = "noteOn" /\ e.velocity = 0

IsSoundingNoteOn(e) == e.type = "noteOn" /\ e.velocity > 0

(***************************************************************************)
(* removeSilent (normalize.ts:50-68).                                      *)
(***************************************************************************)
\* The inner loop: the first index j >= from whose event is a noteOff of the
\* note and channel of `event`; 0 when the loop runs off the end.
RECURSIVE FindNoteOff(_, _, _)
FindNoteOff(track, j, event) ==
  IF j > Len(track) THEN 0
  ELSE IF /\ track[j].type = "noteOff"
          /\ track[j].noteNumber = event.noteNumber
          /\ track[j].channel = event.channel
       THEN j
       ELSE FindNoteOff(track, j + 1, event)

\* The outer loop at index i, counting down to the first element.
RECURSIVE RemoveSilentFrom(_, _)
RemoveSilentFrom(track, i) ==
  IF i < 1 THEN track
  ELSE LET event == track[i] IN
       IF IsSilentNoteOn(event)
       THEN LET spliced == Splice(track, i)
                j == FindNoteOff(spliced, i, event)
            IN RemoveSilentFrom(IF j = 0 THEN spliced ELSE Splice(spliced, j), i - 1)
       ELSE RemoveSilentFrom(track, i - 1)

\* A forward loop that advances the index after a splice.
RECURSIVE RemoveSilentUp(_, _)
RemoveSilentUp(track, i) ==
  IF i > Len(track) THEN track
  ELSE LET event == track[i] IN
       IF IsSilentNoteOn(event)
       THEN LET spliced == Splice(track, i)
                j == FindNoteOff(spliced, i, event)
            IN RemoveSilentUp(IF j = 0 THEN spliced ELSE Splice(spliced, j), i + 1)
       ELSE RemoveSilentUp(track, i + 1)

RemoveSilentTrackForward(track) == RemoveSilentUp(track, 1)

RemoveSilentTrack(track) == RemoveSilentFrom(track, Len(track))

\* The pruner leaving every track as it is.
removeSilentSkipped(midi) == midi

removeSilent(midi) ==
  [midi EXCEPT !.data.tracks =
     [ti \in DOMAIN midi.data.tracks |-> RemoveSilentTrack(midi.data.tracks[ti])]]

(***************************************************************************)
(* normalizeVelocities (normalize.ts:11-47).                               *)
(***************************************************************************)
\* Pass 1: the per-channel range of the velocities of sounding noteOn events.
RECURSIVE ExtractRanges(_, _)
ExtractRanges(events, channelVelocities) ==
  IF events = <<>> THEN channelVelocities
  ELSE LET event == Head(events)
           cv == channelVelocities
       IN ExtractRanges(Tail(events),
            IF IsSoundingNoteOn(event)
            THEN IF event.channel \notin DOMAIN cv
                 THEN cv @@ (event.channel :> [min |-> event.velocity, max |-> event.velocity])
                 ELSE [cv EXCEPT ![event.channel] =
                         [min |-> Min(@.min, event.velocity),
                          max |-> Max(@.max, event.velocity)]]
            ELSE cv)

ChannelVelocities(midi) == ExtractRanges(Flatten(midi.data.tracks), EmptyMap)

\* The rescale with the scale turned upside down.
ScaleVelocityInverted(velocity, range, opts) ==
  IF range.min = range.max
  THEN MathRound(opts.min + opts.max, 2)
  ELSE MathRound((range.max - velocity) * (opts.max - opts.min)
                   + opts.min * (range.max - range.min),
                 range.max - range.min)

\* The rescale without the offset of the target range.
ScaleVelocityNoOffset(velocity, range, opts) ==
  IF range.min = range.max
  THEN MathRound(opts.min + opts.max, 2)
  ELSE MathRound((velocity - range.min) * (opts.max - opts.min),
                 range.max - range.min)

\* Pass 2, one event: the midpoint of the target range when the channel is
\* uniform, the linear rescale otherwise.  The quotient is exact here; the
\* code computes it in double precision, which is monotone in the velocity
\* and exact at both ends of the observed range, but may round a value that
\* lies exactly halfway between two integers down instead of up.
ScaleVelocity(velocity, range, opts) ==
  IF range.min = range.max
  THEN MathRound(opts.min + opts.max, 2)
  ELSE MathRound((velocity - range.min) * (opts.max - opts.min)
                   + opts.min * (range.max - range.min),
                 range.max - range.min)

\* A second pass that rescales every event that carries a velocity above 0.
normalizeVelocitiesAnyType(midi, opts) ==
  LET cv == ChannelVelocities(midi) IN
  [midi EXCEPT !.data.tracks =
     [ti \in DOMAIN midi.data.tracks |->
        [k \in DOMAIN midi.data.tracks[ti] |->
           LET event == midi.data.tracks[ti][k] IN
           IF "velocity" \in DOMAIN event /\ event.velocity > 0 /\ event.channel \in DOMAIN cv
           THEN [event EXCEPT !.velocity = ScaleVelocity(event.velocity, cv[event.channel], opts)]
           ELSE event]]]

normalizeVelocities(midi, opts) ==
  LET cv == ChannelVelocities(midi) IN
  [midi EXCEPT !.data.tracks =
     [ti \in DOMAIN midi.data.tracks |->
        [k \in DOMAIN midi.data.tracks[ti] |->
           LET event == midi.data.tracks[ti][k] IN
           IF IsSoundingNoteOn(event)
           THEN [event EXCEPT !.velocity = ScaleVelocity(event.velocity, cv[event.channel], opts)]
           ELSE event]]]

(***************************************************************************)
(* Names: findInstrumentAndTrackNames (utils.ts:38-52, index.ts:200-214).  *)
(***************************************************************************)
defaultInstrumentName == <<"G", "r", "a", "n", "d", " ", "P", "i", "a", "n", "o">>

defaultTrackName == <<"U", "n", "k", "n", "o", "w", "n", " ", "T", "r", "a", "c", "k">>

\* The name maps of one track: the last name event of each kind wins; an
\* event without text takes the default (rid is the value of randomId).
RECURSIVE FindNames(_, _, _)
FindNames(track, names, rid) ==
  IF track = <<>> THEN names
  ELSE LET event == Head(track) IN
       FindNames(Tail(track),
         IF event.type = "instrumentName"
         THEN [names EXCEPT !.instrument =
                 <<IF "text" \in DOMAIN event THEN event.text ELSE defaultInstrumentName>>]
         ELSE IF event.type = "trackName"
         THEN [names EXCEPT !.track =
                 <<IF "text" \in DOMAIN event THEN event.text
                   ELSE defaultTrackName \o <<" ">> \o rid>>]
         ELSE names,
         rid)

TrackNames(track, rid) == FindNames(track, [instrument |-> <<>>, track |-> <<>>], rid)

\* [instrumentNames, trackNames]: sparse maps keyed by track index.
findInstrumentAndTrackNames(data, rid) ==
  [instrumentNames |->
     [ti \in {t \in DOMAIN data.tracks : TrackNames(data.tracks[t], rid).instrument # <<>>} |->
        TrackNames(data.tracks[ti], rid).instrument[1]],
   trackNames |->
     [ti \in {t \in DOMAIN data.tracks : TrackNames(data.tracks[t], rid).track # <<>>} |->
        TrackNames(data.tracks[ti], rid).track[1]]]

\* The MidiObj built for one parsed file (index.ts:106-113).
LoadMidi(path, data, rid) ==
  [path |-> path,
   data |-> data,
   instrumentNames |-> findInstrumentAndTrackNames(data, rid).instrumentNames,
   trackNames |-> findInstrumentAndTrackNames(data, rid).trackNames]

(***************************************************************************)
(* Matching of names: RegExp.prototype.test and String.prototype.includes. *)
(* A pattern is a sequence of atoms, each a literal character or the       *)
(* wildcard "."; flags are a string of flag characters.                    *)
(***************************************************************************)
LowerCase ==
  [c \in {"A", "B", "C", "D", "E", "F", "G", "H", "I", "J", "K", "L", "M",
          "N", "O", "P", "Q", "R", "S", "T", "U", "V", "W", "X", "Y", "Z"} |->
     CASE c = "A" -> "a" [] c = "B" -> "b" [] c = "C" -> "c" [] c = "D" -> "d"
       [] c = "E" -> "e" [] c = "F" -> "f" [] c = "G" -> "g" [] c = "H" -> "h"
       [] c = "I" -> "i" [] c = "J" -> "j" [] c = "K" -> "k" [] c = "L" -> "l"
       [] c = "M" -> "m" [] c = "N" -> "n" [] c = "O" -> "o" [] c = "P" -> "p"
       [] c = "Q" -> "q" [] c = "R" -> "r" [] c = "S" -> "s" [] c = "T" -> "t"
       [] c = "U" -> "u" [] c = "V" -> "v" [] c = "W" -> "w" [] c = "X" -> "x"
       [] c = "Y" -> "y" [] c = "Z" -> "z"]

Fold(c) == IF c \in DOMAIN LowerCase THEN LowerCase[c] ELSE c

AtomMatches(atom, c, ignoreCase) ==
  \/ atom = "."
  \/ atom = c
  \/ ignoreCase /\ Fold(atom) = Fold(c)

\* new RegExp(pattern, flags).test(str): an unanchored search.
RegExpTest(pattern, flags, str) ==
  LET ignoreCase == \E k \in DOMAIN flags : flags[k] = "i" IN
  \E off \in 0..(Len(str) - Len(pattern)) :
    \A k \in DOMAIN pattern : AtomMatches(pattern[k], str[off + k], ignoreCase)

\* str.includes(include): a case-sensitive substring search.
StringIncludes(str, include) ==
  \E off \in 0..(Len(str) - Len(include)) :
    \A k \in DOMAIN include : include[k] = str[off + k]

\* A lookup that falls back to the default instrument name.
NameOfOrDefault(names, ti) == IF ti \in DOMAIN names THEN names[ti] ELSE defaultInstrumentName

\* `names[ti] && ...`: the name of track ti when it is present and not
\* empty, the empty string (which no test is applied to) otherwise.
NameOf(names, ti) == IF ti \in DOMAIN names THEN names[ti] ELSE <<>>

(***************************************************************************)
(* normalizeChannels (normalize.ts:76-104).                                *)
(***************************************************************************)
PatternFlags(match) ==
  IF "patternFlags" \in DOMAIN match THEN match.patternFlags ELSE <<"i">>

\* The condition under which the rule `match` rewrites track ti.
TrackMatches(midi, ti, match) ==
  LET instrumentName == NameOf(midi.instrumentNames, ti)
      trackName == NameOf(midi.trackNames, ti)
  IN IF "patterns" \in DOMAIN match
     THEN \E p \in DOMAIN match.patterns :
            \/ /\ instrumentName # <<>>
               /\ RegExpTest(match.patterns[p], PatternFlags(match), instrumentName)
            \/ /\ trackName # <<>>
               /\ RegExpTest(match.patterns[p], PatternFlags(match), trackName)
     ELSE IF "includes" \in DOMAIN match
     THEN \E p \in DOMAIN match.includes :
            \/ /\ instrumentName # <<>>
               /\ StringIncludes(instrumentName, match.includes[p])
            \/ /\ trackName # <<>>
               /\ StringIncludes(trackName, match.includes[p])
     ELSE FALSE

SetChannel(track, channel) ==
  [k \in DOMAIN track |->
     IF HasChannel(track[k]) THEN [track[k] EXCEPT !.channel = channel] ELSE track[k]]

\* One iteration of the outer loop: the rule applied to every track.
ApplyMatch(midi, match) ==
  [midi EXCEPT !.data.tracks =
     [ti \in DOMAIN midi.data.tracks |->
        IF TrackMatches(midi, ti, match)
        THEN SetChannel(midi.data.tracks[ti], match.channel)
        ELSE midi.data.tracks[ti]]]

RECURSIVE ApplyMatches(_, _)
ApplyMatches(midi, matches) ==
  IF matches = <<>> THEN midi
  ELSE ApplyMatches(ApplyMatch(midi, Head(matches)), Tail(matches))

\* The rules applied from the last to the first.
RECURSIVE ApplyMatchesReversed(_, _)
ApplyMatchesReversed(midi, matches) ==
  IF matches = <<>> THEN midi
  ELSE ApplyMatch(ApplyMatchesReversed(midi, Tail(matches)), Head(matches))

normalizeChannelsReversed(midi, options) == ApplyMatchesReversed(midi, options.match)

normalizeChannels(midi, options) == ApplyMatches(midi, options.match)

(***************************************************************************)
(* addBuffers (normalize.ts:109-155).  The result is [midi, threw]: threw  *)
(* is TRUE when the call ends in a TypeError, midi then being the object   *)
(* as mutated up to the throw.                                             *)
(***************************************************************************)
defaultTicksPerBeat == 480

TicksPerBeat(midi) ==
  IF "ticksPerBeat" \in DOMAIN midi.data.header
  THEN midi.data.header.ticksPerBeat
  ELSE defaultTicksPerBeat

\* `if(opts.startBuffer)`: the option is set and is not 0.
IsSet(opts, field) == field \in DOMAIN opts /\ opts[field].num # 0

\* Math.round(seconds * tpb).
BufferTicks(seconds, tpb) == MathRound(seconds.num * tpb, seconds.den)

ShiftEvent(event, ticks) == [event EXCEPT !.deltaTime = @ + ticks]

\* normalize.ts:115-117: the inner loop over the events of one track.
ShiftTrack(track, ticks) ==
  [k \in DOMAIN track |-> ShiftEvent(track[k], ticks)]

AddStartBuffer(midi, opts) ==
  IF IsSet(opts, "startBuffer")
  THEN LET startBufferTicks == BufferTicks(opts.startBuffer, TicksPerBeat(midi)) IN
       [midi EXCEPT !.data.tracks =
          [ti \in DOMAIN midi.data.tracks |-> ShiftTrack(midi.data.tracks[ti], startBufferTicks)]]
  ELSE midi

\* tracks.reduce((longest, current) => current.length > longest.length ?
\* current : longest, tracks[0]), as the index of the track it returns.
RECURSIVE ReduceLongest(_, _, _)
ReduceLongest(tracks, k, longest) ==
  IF k > Len(tracks) THEN longest
  ELSE ReduceLongest(tracks, k + 1,
         IF Len(tracks[k]) > Len(tracks[longest]) THEN k ELSE longest)

LongestTrack(tracks) == ReduceLongest(tracks, 1, 1)

\* longestTrack.find(event => "channel" in event)?.channel ?? 1, and 1 when
\* no event carries a channel.
RECURSIVE FirstChannel(_, _)
FirstChannel(track, k) ==
  IF k > Len(track) THEN 1
  ELSE IF HasChannel(track[k]) THEN track[k].channel
  ELSE FirstChannel(track, k + 1)

\* The index behind which a push would insert: the end of the track.
LastIndexOfTrack(track, k) ==
  IF \E i \in 1..k : track[i].type = "noteOn" \/ track[i].type = "noteOff" THEN k ELSE 0

\* findLastIndex(noteOn or noteOff), 1-based; 0 for the code's -1.
RECURSIVE FindLastNoteIndex(_, _)
FindLastNoteIndex(track, k) ==
  IF k < 1 THEN 0
  ELSE IF track[k].type = "noteOn" \/ track[k].type = "noteOff" THEN k
  ELSE FindLastNoteIndex(track, k - 1)

GhostNotes(lastEvent, endBufferTicks, channel) ==
  << NoteOn(channel, 60, 0, lastEvent.deltaTime + endBufferTicks),
     NoteOff(channel, 60, 0, lastEvent.deltaTime + endBufferTicks + 1) >>

\* normalize.ts:130-152 on the longest track.
AddGhostNotes(longestTrack, endBufferTicks) ==
  IF longestTrack = <<>> THEN longestTrack
  ELSE LET lastEvent == longestTrack[Len(longestTrack)]
           channel == FirstChannel(longestTrack, 1)
           lastNoteIndex == FindLastNoteIndex(longestTrack, Len(longestTrack))
       IN IF lastNoteIndex # 0
          THEN SpliceIn(longestTrack, lastNoteIndex,
                        GhostNotes(lastEvent, endBufferTicks, channel))
          ELSE longestTrack

\* normalize.ts:121-153.  With no track at all, reduce returns undefined and
\* `longestTrack.length` throws.
AddEndBuffer(midi, opts) ==
  IF ~IsSet(opts, "endBuffer") THEN [midi |-> midi, threw |-> FALSE]
  ELSE IF midi.data.tracks = <<>> THEN [midi |-> midi, threw |-> TRUE]
  ELSE LET endBufferTicks == BufferTicks(opts.endBuffer, TicksPerBeat(midi))
           longest == LongestTrack(midi.data.tracks)
       IN [midi |-> [midi EXCEPT !.data.tracks[longest] = AddGhostNotes(@, endBufferTicks)],
           threw |-> FALSE]

addBuffers(midi, opts) == AddEndBuffer(AddStartBuffer(midi, opts), opts)

(***************************************************************************)
(* The addBuffers local to the driver (index.ts:345-382): both buffers go  *)
(* to the first track, as a leading silent noteOn after a tempo event and  *)
(* a trailing noteOff.                                                     *)
(***************************************************************************)
addBuffersDriver(midi, opts) ==
  IF ~(IsSet(opts, "startBuffer") \/ IsSet(opts, "endBuffer")) THEN midi
  ELSE IF midi.data.tracks = <<>> THEN midi
  ELSE LET tpb == TicksPerBeat(midi)
           startBufferTicks ==
             IF IsSet(opts, "startBuffer") THEN BufferTicks(opts.startBuffer, tpb) ELSE 0
           endBufferTicks ==
             IF IsSet(opts, "endBuffer") THEN BufferTicks(opts.endBuffer, tpb) ELSE 0
           head == IF startBufferTicks > 0
                   THEN <<NoteOn(0, 0, 0, startBufferTicks), SetTempo(500000, 0)>>
                   ELSE <<>>
           tail == IF endBufferTicks > 0
                   THEN <<NoteOff(0, 0, 0, endBufferTicks)>>
                   ELSE <<>>
       IN [midi EXCEPT !.data.tracks[1] = head \o @ \o tail]

(***************************************************************************)
(* The driver (index.ts:86-181): the input files are read and parsed, the  *)
(* files that parsed go through the four stages, one stage at a time for   *)
(* all files, and the results are written.                                 *)
(*   inputs    the files of the input directory: a record with a `data`    *)
(*             field when reading and parsing succeed, without it when     *)
(*             readFile or parseMidi throws                                *)
(*   midis     the MidiObjs of the run                                     *)
(*   pc        the step the batch has completed                            *)
(*   done      per file, the number of stages it has completed in this run *)
(*   run       the number of the current run of the pipeline               *)
(*   impl      which addBuffers the pipeline is built with: the exported   *)
(*             one of normalize.ts or the one local to index.ts            *)
(*   prev      the files as they were before the last stage                *)
(*   firstRun  the files as they were at the end of the previous run       *)
(*   err       the error that ended the run, if any                        *)
(*   written   per file, the outcome of writing it: "saved" or "error"     *)
(***************************************************************************)
MaxRuns == 2

\* The values randomId(5, 36) may return.
RandomIds == {<<"0", "0", "0", "0", "0">>}

IsParsed(file) == "data" \in DOMAIN file

StagesDone(fs, n) == [k \in DOMAIN fs |-> n]

\* The files are read and parsed, each in its own try/catch: a file that
\* fails yields null and is filtered out; without any file left the
\* program exits (index.ts:103-127).
LoadFiles ==
  /\ pc = "start"
  /\ \E rid \in RandomIds :
       LET parsed == SelectSeq(inputs, IsParsed) IN
       midis' = [k \in DOMAIN parsed |-> LoadMidi(parsed[k].path, parsed[k].data, rid)]
  /\ pc' = IF midis' = <<>> THEN "exited" ELSE "loaded"
  /\ done' = StagesDone(midis', 0)
  /\ UNCHANGED <<inputs, config, run, impl, prev, firstRun, err, written>>

RemoveSilentStage ==
  /\ pc = "loaded"
  /\ midis' = [k \in DOMAIN midis |-> removeSilent(midis[k])]
  /\ pc' = "noSilent"
  /\ done' = StagesDone(midis, 1)
  /\ prev' = midis
  /\ UNCHANGED <<inputs, config, run, impl, firstRun, err, written>>

NormalizeVelocitiesStage ==
  /\ pc = "noSilent"
  /\ midis' = [k \in DOMAIN midis |-> normalizeVelocities(midis[k], config.velocities)]
  /\ pc' = "velNormalized"
  /\ done' = StagesDone(midis, 2)
  /\ prev' = midis
  /\ UNCHANGED <<inputs, config, run, impl, firstRun, err, written>>

NormalizeChannelsStage ==
  /\ pc = "velNormalized"
  /\ midis' = [k \in DOMAIN midis |-> normalizeChannels(midis[k], config.channels)]
  /\ pc' = "chNormalized"
  /\ done' = StagesDone(midis, 3)
  /\ prev' = midis
  /\ UNCHANGED <<inputs, config, run, impl, firstRun, err, written>>

\* Array.prototype.map over the files: a throw in one call ends the run, the
\* files before it processed, the file itself mutated up to the throw.
AddBuffersStage ==
  /\ pc = "chNormalized"
  /\ impl \in {"unbound", "normalize.ts"}
  /\ LET results == [k \in DOMAIN midis |-> addBuffers(midis[k], config.misc)]
         thrower == {k \in DOMAIN midis : results[k].threw}
     IN IF thrower = {}
        THEN /\ midis' = [k \in DOMAIN midis |-> results[k].midi]
             /\ pc' = "buffersAdded"
             /\ done' = StagesDone(midis, 4)
             /\ err' = err
        ELSE LET f == CHOOSE k \in thrower : \A m \in thrower : k <= m IN
             /\ midis' = [k \in DOMAIN midis |-> IF k <= f THEN results[k].midi ELSE midis[k]]
             /\ pc' = "failed"
             /\ done' = [k \in DOMAIN midis |-> IF k < f THEN 4 ELSE 3]
             /\ err' = "TypeError"
  /\ impl' = "normalize.ts"
  /\ prev' = midis
  /\ UNCHANGED <<inputs, config, run, firstRun, written>>

AddBuffersDriverStage ==
  /\ pc = "chNormalized"
  /\ impl \in {"unbound", "index.ts"}
  /\ midis' = [k \in DOMAIN midis |-> addBuffersDriver(midis[k], config.misc)]
  /\ pc' = "buffersAdded"
  /\ done' = StagesDone(midis, 4)
  /\ impl' = "index.ts"
  /\ prev' = midis
  /\ UNCHANGED <<inputs, config, run, firstRun, err, written>>

\* Every final file is written in its own try/catch: a write that throws
\* is logged and the other files are written all the same
\* (index.ts:169-180).
WriteFiles ==
  /\ pc = "buffersAdded"
  /\ \E failing \in SUBSET DOMAIN midis :
       written' = [k \in DOMAIN midis |-> IF k \in failing THEN "error" ELSE "saved"]
  /\ pc' = "written"
  /\ UNCHANGED <<inputs, midis, config, done, run, impl, prev, firstRun, err>>

\* The pipeline is run again on its own result.
RunAgain ==
  /\ pc = "buffersAdded"
  /\ run < MaxRuns
  /\ pc' = "loaded"
  /\ done' = StagesDone(midis, 0)
  /\ run' = run + 1
  /\ firstRun' = midis
  /\ prev' = midis
  /\ UNCHANGED <<inputs, midis, config, impl, err, written>>

Next ==
  \/ LoadFiles
  \/ RemoveSilentStage
  \/ NormalizeVelocitiesStage
  \/ NormalizeChannelsStage
  \/ AddBuffersStage
  \/ AddBuffersDriverStage
  \/ WriteFiles
  \/ RunAgain

(***************************************************************************)
(* Inputs: the files and configurations the runs start from.               *)
(***************************************************************************)
SeqsUpTo(S, n) == UNION {[1..k -> S] : k \in 0..n}

\* The lists of at most n tracks over the events of S with at most `budget`
\* events in total.
RECURSIVE TrackLists(_, _, _)
TrackLists(S, n, budget) ==
  IF n = 0 THEN {<<>>}
  ELSE {<<>>} \cup
       UNION {{<<t>> \o rest : rest \in TrackLists(S, n - 1, budget - Len(t))} :
              t \in SeqsUpTo(S, budget)}

Headers == {[format |-> 1, ticksPerBeat |-> 96], [format |-> 1, framesPerSecond |-> 25]}

MidiDatas(S, headers) ==
  {[header |-> h, tracks |-> ts] : h \in headers, ts \in TrackLists(S, MaxTracks, MaxEvents)}

Seconds(num, den) == [num |-> num, den |-> den]

NoRules == [match |-> <<>>]

NoBuffers == [k \in {} |-> Seconds(0, 1)]

\* The program before it reads its input directory.
InitFrom(files, configs) ==
  /\ inputs \in files
  /\ midis = <<>>
  /\ config \in configs
  /\ pc = "start"
  /\ done = <<>>
  /\ run = 1
  /\ impl = "unbound"
  /\ prev = <<>>
  /\ firstRun = <<>>
  /\ err = "none"
  /\ written = <<>>

\* One input file that parses to one of `datas`.
InitWith(datas, configs) ==
  InitFrom({<<[path |-> "in.mid", data |-> data]>> : data \in datas}, configs)

\* Inputs of the silence pruner: silent and sounding noteOns and noteOffs
\* of one note, told apart by their delta times, noteOffs of another channel
\* and of another note, and a trailing meta event.
PruneEvents ==
  { NoteOn(0, 60, 0, 0), NoteOn(0, 60, 100, 0), NoteOff(0, 60, 0, 0),
    NoteOff(0, 60, 0, 5), NoteOff(1, 60, 0, 0), NoteOff(0, 61, 0, 0), EndOfTrack(0) }

PruneConfigs ==
  {[velocities |-> [min |-> 0, max |-> 127], channels |-> NoRules, misc |-> NoBuffers]}

InitPrune == InitWith(MidiDatas(PruneEvents, {[format |-> 1, ticksPerBeat |-> 96]}), PruneConfigs)

SpecPrune == InitPrune /\ [][Next]_vars

\* Inputs of the velocity normalizer: sounding noteOns of channel 0 with
\* close and extreme velocities, one of channel 1, and target ranges with
\* odd and even sums, a single point and the full range.
VelocityEvents ==
  { NoteOn(0, 60, 1, 0), NoteOn(0, 60, 2, 0), NoteOn(0, 60, 3, 0),
    NoteOn(0, 60, 127, 0), NoteOn(1, 60, 100, 0) }

VelocityRanges ==
  { [min |-> 0, max |-> 127], [min |-> 0, max |-> 1], [min |-> 64, max |-> 64],
    [min |-> 10, max |-> 100], [min |-> 126, max |-> 127], [min |-> 0, max |-> 0],
    [min |-> 127, max |-> 127], [min |-> 1, max |-> 126], [min |-> 0, max |-> 2] }

VelocityConfigs ==
  {[velocities |-> r, channels |-> NoRules, misc |-> NoBuffers] : r \in VelocityRanges}

InitVel ==
  InitWith(MidiDatas(VelocityEvents, {[format |-> 1, ticksPerBeat |-> 96]}), VelocityConfigs)

SpecVel == InitVel /\ [][Next]_vars

\* Inputs of the channel remapper: tracks named by name events, and rules
\* that match by pattern or by substring, with and without `exclusive`, with
\* the first, the last and an inner channel of the configuration's 1..16.
GrandPiano == <<"G", "r", "a", "n", "d", " ", "P", "i", "a", "n", "o">>

Drums == <<"D", "r", "u", "m", "s">>

ChannelEvents ==
  { TrackName(GrandPiano, 0), InstrumentName(Drums, 0), NoteOn(0, 60, 100, 0) }

ChannelRules ==
  { [patterns |-> << <<"p", "i", "a", "n", "o">> >>, channel |-> 1, exclusive |-> TRUE],
    [patterns |-> << <<".">> >>, channel |-> 16],
    [includes |-> << <<"D", "r", "u", "m">> >>, channel |-> 10, exclusive |-> FALSE] }

ChannelConfigs ==
  {[velocities |-> [min |-> 0, max |-> 127], channels |-> [match |-> m], misc |-> NoBuffers] :
     m \in SeqsUpTo(ChannelRules, MaxRules)}

InitChan ==
  InitWith(MidiDatas(ChannelEvents, {[format |-> 1, ticksPerBeat |-> 96]}), ChannelConfigs)

SpecChan == InitChan /\ [][Next]_vars

\* Inputs of the buffer inserter: a controller and a note with different
\* channels, a trailing meta event, headers with and without ticksPerBeat,
\* and buffers that are absent, zero, fractional or whole seconds.
BufferEvents ==
  { Controller(3, 5), NoteOn(2, 60, 100, 10), EndOfTrack(0) }

MiscOptions ==
  { NoBuffers,
    [startBuffer |-> Seconds(1, 1)],
    [startBuffer |-> Seconds(1, 64), endBuffer |-> Seconds(0, 1)],
    [endBuffer |-> Seconds(1, 1)],
    [startBuffer |-> Seconds(0, 1), endBuffer |-> Seconds(1, 64)],
    [startBuffer |-> Seconds(1, 1), endBuffer |-> Seconds(2, 1)] }

BufferConfigs ==
  {[velocities |-> [min |-> 0, max |-> 127], channels |-> NoRules, misc |-> m] :
     m \in MiscOptions}

InitBuf == InitWith(MidiDatas(BufferEvents, Headers), BufferConfigs)

SpecBuf == InitBuf /\ [][Next]_vars

\* Inputs of whole runs: silent and sounding notes on two channels, a named
\* track, and configurations with a one-point target range, a rule and
\* both buffers.
PipelineEvents ==
  { NoteOn(0, 60, 0, 0), NoteOn(0, 60, 100, 0), NoteOn(1, 60, 50, 0),
    NoteOff(0, 60, 0, 0), TrackName(GrandPiano, 0) }

PipelineConfigs ==
  {[velocities |-> r, channels |-> [match |-> m], misc |-> b] :
     r \in {[min |-> 64, max |-> 64], [min |-> 0, max |-> 127]},
     m \in {<<>>, <<[patterns |-> << <<"P", "i", "a", "n", "o">> >>, patternFlags |-> <<>>,
                      channel |-> 1]>>},
     b \in {NoBuffers, [startBuffer |-> Seconds(1, 1), endBuffer |-> Seconds(1, 1)]}}

Init == InitWith(MidiDatas(PipelineEvents, {[format |-> 1, ticksPerBeat |-> 96]}), PipelineConfigs)

Spec == Init /\ [][Next]_vars

(***************************************************************************)
(* Vocabulary of the properties.                                           *)
(***************************************************************************)
\* The positions <<file, track, index>> of the events of the files fs.
Positions(fs) ==
  UNION {UNION {{<<f, ti, k>> : k \in DOMAIN fs[f].data.tracks[ti]} :
                ti \in DOMAIN fs[f].data.tracks} : f \in DOMAIN fs}

EventAt(fs, p) == fs[p[1]].data.tracks[p[2]][p[3]]

TracksOf(fs) == UNION {{<<f, ti>> : ti \in DOMAIN fs[f].data.tracks} : f \in DOMAIN fs}

TrackAt(fs, t) == fs[t[1]].data.tracks[t[2]]

\* The positions of the sounding noteOns of channel c in file f of fs.
SoundingOn(fs, f, c) ==
  {p \in Positions(fs) : p[1] = f /\ IsSoundingNoteOn(EventAt(fs, p)) /\ EventAt(fs, p).channel = c}

\* The channels of the sounding noteOns of file f of fs.
Channels(fs, f) ==
  {EventAt(fs, p).channel : p \in {q \in Positions(fs) : q[1] = f /\ IsSoundingNoteOn(EventAt(fs, q))}}

\* e is a noteOff, or a noteOn of velocity 0, of the note and channel of on.
EndsNote(e, on) ==
  /\ e.type = "noteOff" \/ IsSilentNoteOn(e)
  /\ e.noteNumber = on.noteNumber
  /\ e.channel = on.channel

Restrikes(e, on) ==
  /\ IsSoundingNoteOn(e)
  /\ e.noteNumber = on.noteNumber
  /\ e.channel = on.channel

\* Every sounding noteOn is ended later in the track before its note is
\* struck again on its channel.
WellPaired(track) ==
  \A i \in DOMAIN track :
    IsSoundingNoteOn(track[i]) =>
      \E j \in (i + 1)..Len(track) :
        /\ EndsNote(track[j], track[i])
        /\ \A k \in (i + 1)..(j - 1) : ~Restrikes(track[k], track[i])

\* The pruning the silence pruner is to compute, from the end of the track
\* to its start: a silent noteOn goes, and with it the first noteOff of its
\* note and channel among what is left of the events after it.
RECURSIVE WithoutFirstNoteOff(_, _)
WithoutFirstNoteOff(track, on) ==
  IF track = <<>> THEN <<>>
  ELSE IF Head(track).type = "noteOff" /\ Head(track).noteNumber = on.noteNumber
          /\ Head(track).channel = on.channel
       THEN Tail(track)
       ELSE <<Head(track)>> \o WithoutFirstNoteOff(Tail(track), on)

RECURSIVE Pruned(_)
Pruned(track) ==
  IF track = <<>> THEN <<>>
  ELSE IF IsSilentNoteOn(Head(track))
       THEN WithoutFirstNoteOff(Pruned(Tail(track)), Head(track))
       ELSE <<Head(track)>> \o Pruned(Tail(track))

(***************************************************************************)
(* Silence pruner.                                                         *)
(***************************************************************************)
\* C5: after removeSilent no noteOn of velocity 0 is left in any track, each
\* track is the original one without its silent noteOns and without, for
\* each of them, the nearest following noteOff of the same note and channel
\* still present, and no error is raised.
C5_PruningRemovesPairs ==
  pc = "noSilent" =>
    /\ err = "none"
    /\ \A t \in TracksOf(midis) :
         /\ \A k \in DOMAIN TrackAt(midis, t) : ~IsSilentNoteOn(TrackAt(midis, t)[k])
         /\ TrackAt(midis, t) = Pruned(TrackAt(prev, t))

\* Two silent noteOns in a row, the first an orphan after the second took the
\* only noteOff, have been pruned from a track.
C5_Witness ==
  /\ pc = "noSilent"
  /\ \E t \in TracksOf(prev) :
       LET before == TrackAt(prev, t) IN
       /\ Len(before) >= 3
       /\ IsSilentNoteOn(before[1])
       /\ IsSilentNoteOn(before[2])
       /\ before[3] = NoteOff(0, 60, 0, 5)
       /\ Len(TrackAt(midis, t)) = Len(before) - 3

\* C6: a track whose sounding noteOns are all matched before removeSilent
\* has all its sounding noteOns matched after it.
C6_PruningPreservesPairs ==
  pc = "noSilent" =>
    \A t \in TracksOf(midis) :
      WellPaired(TrackAt(prev, t)) => WellPaired(TrackAt(midis, t))

(***************************************************************************)
(* Velocity normalizer.                                                    *)
(***************************************************************************)
VelocitiesOn(fs, f, c) == {EventAt(fs, p).velocity : p \in SoundingOn(fs, f, c)}

ValidRange(opts) == 0 <= opts.min /\ opts.min <= opts.max /\ opts.max <= 127

\* C7: when all sounding noteOns of a channel have the same velocity, each
\* of them has velocity round((min + max) / 2) after normalizeVelocities.
C7_UniformCollapsesToMidpoint ==
  (pc = "velNormalized" /\ ValidRange(config.velocities)) =>
    \A f \in DOMAIN prev : \A c \in Channels(prev, f) :
      Cardinality(VelocitiesOn(prev, f, c)) = 1 =>
        \A p \in SoundingOn(prev, f, c) :
          /\ EventAt(midis, p).type = "noteOn"
          /\ 2 * EventAt(midis, p).velocity - (config.velocities.min + config.velocities.max)
               \in {0, 1}

\* A channel uniform over two tracks has been normalized into a range whose
\* midpoint is not an integer.
C7_Witness ==
  /\ pc = "velNormalized"
  /\ (config.velocities.min + config.velocities.max) % 2 = 1
  /\ \E f \in DOMAIN prev : \E c \in Channels(prev, f) :
       /\ Cardinality(VelocitiesOn(prev, f, c)) = 1
       /\ \E p, q \in SoundingOn(prev, f, c) : p[2] # q[2]

\* C8: two sounding noteOns of one channel with velocities v1 < v2 have
\* velocities n1 <= n2 after normalizeVelocities, in whatever tracks they are.
C8_OrderPreserved ==
  (pc = "velNormalized" /\ ValidRange(config.velocities)) =>
    \A f \in DOMAIN prev : \A c \in Channels(prev, f) :
      \A p, q \in SoundingOn(prev, f, c) :
        EventAt(prev, p).velocity < EventAt(prev, q).velocity =>
          EventAt(midis, p).velocity <= EventAt(midis, q).velocity

\* Two noteOns of one channel in different tracks, the louder one first in
\* file order, have been rescaled to different velocities.
C8_Witness ==
  /\ pc = "velNormalized"
  /\ \E f \in DOMAIN prev : \E c \in Channels(prev, f) :
       \E p, q \in SoundingOn(prev, f, c) :
         /\ p[2] > q[2]
         /\ EventAt(prev, p).velocity < EventAt(prev, q).velocity
         /\ EventAt(midis, p).velocity < EventAt(midis, q).velocity

\* C9: on a channel whose sounding noteOns differ in velocity, every
\* normalized velocity lies in [min, max], the quietest maps to min and the
\* loudest to max.
C9_RangeContainment ==
  (pc = "velNormalized" /\ ValidRange(config.velocities)) =>
    \A f \in DOMAIN prev : \A c \in Channels(prev, f) :
      Cardinality(VelocitiesOn(prev, f, c)) > 1 =>
        \A p \in SoundingOn(prev, f, c) :
          LET old == EventAt(prev, p).velocity
              new == EventAt(midis, p).velocity
          IN /\ config.velocities.min <= new
             /\ new <= config.velocities.max
             /\ 0 <= new /\ new <= 127
             /\ (\A q \in SoundingOn(prev, f, c) : old <= EventAt(prev, q).velocity)
                  => new = config.velocities.min
             /\ (\A q \in SoundingOn(prev, f, c) : old >= EventAt(prev, q).velocity)
                  => new = config.velocities.max

\* A velocity strictly between the observed extremes, falling halfway
\* between two integers of the target range, has been rounded.
C9_Witness ==
  /\ pc = "velNormalized"
  /\ config.velocities.min > 0
  /\ config.velocities.min < config.velocities.max
  /\ \E f \in DOMAIN prev :
       /\ VelocitiesOn(prev, f, 0) = {1, 2, 3}
       /\ \E p \in SoundingOn(prev, f, 0) :
            /\ EventAt(prev, p).velocity = 2
            /\ 2 * EventAt(midis, p).velocity =
                 config.velocities.min + config.velocities.max + 1

(***************************************************************************)
(* Channel remapper.                                                       *)
(***************************************************************************)
Rules == config.channels.match

IsExclusive(match) == "exclusive" \in DOMAIN match /\ match.exclusive

\* The indices of the rules that match track t of the files fs.
MatchingRules(fs, t) == {r \in DOMAIN Rules : TrackMatches(fs[t[1]], t[2], Rules[r])}

AllOnChannel(track, channel) ==
  \A k \in DOMAIN track : HasChannel(track[k]) => track[k].channel = channel

\* C1: a track matched by an exclusive rule ends, after normalizeChannels,
\* with the channel of the first exclusive rule that matches it on each of its
\* channel-bearing events.
C1_ExclusiveLocksChannel ==
  pc = "chNormalized" =>
    \A t \in TracksOf(midis) :
      LET exclusive == {r \in MatchingRules(prev, t) : IsExclusive(Rules[r])} IN
      exclusive # {} =>
        LET first == CHOOSE r \in exclusive : \A q \in exclusive : r <= q IN
        AllOnChannel(TrackAt(midis, t), Rules[first].channel)

\* C2: a track matched by rules none of which is exclusive ends, after
\* normalizeChannels, with the channel of the last rule that matches it on
\* each of its channel-bearing events.
C2_LastMatchingRuleWins ==
  pc = "chNormalized" =>
    \A t \in TracksOf(midis) :
      LET matching == MatchingRules(prev, t) IN
      (matching # {} /\ \A r \in matching : ~IsExclusive(Rules[r])) =>
        LET last == CHOOSE r \in matching : \A q \in matching : r >= q IN
        AllOnChannel(TrackAt(midis, t), Rules[last].channel)

\* Two rules without `exclusive` and with different channels have both
\* matched a track that has a channel-bearing event.
C2_Witness ==
  /\ pc = "chNormalized"
  /\ \E t \in TracksOf(midis) :
       /\ MatchingRules(prev, t) = {1, 2}
       /\ ~IsExclusive(Rules[1]) /\ ~IsExclusive(Rules[2])
       /\ Rules[1].channel # Rules[2].channel
       /\ \E k \in DOMAIN TrackAt(midis, t) : HasChannel(TrackAt(midis, t)[k])

(***************************************************************************)
(* Buffer inserter.                                                        *)
(***************************************************************************)
AddBuffersDone == pc = "buffersAdded" /\ impl = "normalize.ts"

\* The start buffer added to the first event of a track only.
ShiftFirstOnly(track, ticks) ==
  [k \in DOMAIN track |-> IF k = 1 THEN ShiftEvent(track[k], ticks) ELSE track[k]]

\* C3: without an end buffer, addBuffers with a start buffer of `ticks` adds
\* ticks to the deltaTime of the first event of each track and leaves every
\* other deltaTime as it was.
C3_StartBufferShiftsFirstEventOnly ==
  (AddBuffersDone /\ IsSet(config.misc, "startBuffer") /\ ~IsSet(config.misc, "endBuffer")) =>
    \A t \in TracksOf(prev) :
      TrackAt(midis, t) =
        ShiftFirstOnly(TrackAt(prev, t),
                       BufferTicks(config.misc.startBuffer, TicksPerBeat(prev[t[1]])))

Untimed(track) == [k \in DOMAIN track |-> [track[k] EXCEPT !.deltaTime = 0]]

\* The first track of maximal length.
IsLongest(tracks, ti) ==
  /\ \A o \in DOMAIN tracks : Len(tracks[o]) <= Len(tracks[ti])
  /\ \A o \in 1..(ti - 1) : Len(tracks[o]) < Len(tracks[ti])

\* C4: with an end buffer, addBuffers adds to the longest track, when it is
\* not empty, a noteOn and a noteOff of note 60 and velocity 0, adjacent and
\* on the channel of the first channel-bearing event of the track (1 when
\* there is none), and adds no event to any other track; when the longest
\* track is empty no track gains an event.
C4_EndBufferAddsTwoEvents ==
  (AddBuffersDone /\ IsSet(config.misc, "endBuffer")) =>
    \A t \in TracksOf(prev) :
      LET before == TrackAt(prev, t)
          after == TrackAt(midis, t)
          bearing == {k \in DOMAIN before : HasChannel(before[k])}
          channel == IF bearing = {} THEN 1
                     ELSE before[CHOOSE k \in bearing : \A q \in bearing : k <= q].channel
      IN IF IsLongest(prev[t[1]].data.tracks, t[2]) /\ before # <<>>
         THEN \E i \in 0..Len(before) :
                Untimed(after) =
                  SpliceIn(Untimed(before), i,
                           <<NoteOn(channel, 60, 0, 0), NoteOff(channel, 60, 0, 0)>>)
         ELSE Untimed(after) = Untimed(before)

(***************************************************************************)
(* Whole runs.                                                             *)
(***************************************************************************)
\* The velocities of the noteOn events of a track, in order.
NoteOnVelocities(track) ==
  LET IsNoteOn(e) == e.type = "noteOn"
      ons == SelectSeq(track, IsNoteOn)
  IN [k \in DOMAIN ons |-> ons[k].velocity]

\* C10: with min = max = 64, a run of the pipeline on the result of a run
\* ends with the same noteOn velocities in every track as the run before.
C10_SecondRunKeepsVelocities ==
  (/\ pc = "buffersAdded"
   /\ run > 1
   /\ config.velocities.min = 64
   /\ config.velocities.max = 64) =>
    /\ TracksOf(midis) = TracksOf(firstRun)
    /\ \A t \in TracksOf(midis) :
         NoteOnVelocities(TrackAt(midis, t)) = NoteOnVelocities(TrackAt(firstRun, t))

\* A second run with both buffers and a matching rule has ended on a file
\* whose first run pruned a silent noteOn and rescaled two channels.
C10_Witness ==
  /\ pc = "buffersAdded"
  /\ run > 1
  /\ config.velocities.min = 64
  /\ config.velocities.max = 64
  /\ IsSet(config.misc, "startBuffer") /\ IsSet(config.misc, "endBuffer")
  /\ config.channels.match # <<>>
  /\ \E t \in TracksOf(midis) :
       /\ \E k \in DOMAIN TrackAt(midis, t) : IsSilentNoteOn(TrackAt(midis, t)[k])
       /\ \E k \in DOMAIN TrackAt(midis, t) : IsSoundingNoteOn(TrackAt(midis, t)[k])
       /\ 1 \in DOMAIN midis[t[1]].trackNames

(***************************************************************************)
(* Totality of the stages.                                                 *)
(***************************************************************************)
\* C11: for every structurally valid file (zero tracks and empty tracks
\* included) and valid options, no stage raises an error: a run never ends
\* in a failure.
C11_StagesTotal == pc # "failed" /\ err = "none"

(***************************************************************************)
(* Files processed side by side: every file has a worker that takes it     *)
(* through the four stages of normalize.ts in their order, and the steps   *)
(* of the workers interleave freely. An error thrown by a stage is not     *)
(* caught and ends the program, as in the driver.                          *)
(***************************************************************************)
MaxFiles == 2

\* The stage a file enters after n - 1 stages, applied to that file.
Stage(n, midi, cfg) ==
  CASE n = 1 -> [midi |-> removeSilent(midi), threw |-> FALSE]
    [] n = 2 -> [midi |-> normalizeVelocities(midi, cfg.velocities), threw |-> FALSE]
    [] n = 3 -> [midi |-> normalizeChannels(midi, cfg.channels), threw |-> FALSE]
    [] n = 4 -> addBuffers(midi, cfg.misc)

\* A step that passes every file to the stage instead of its own.
RunStageAll(fs, k, n, cfg) == [j \in DOMAIN fs |-> Stage(n, fs[j], cfg).midi]

\* The files after the worker of file k has called stage n: the stage gets
\* the MidiObj of file k and nothing else.
RunStage(fs, k, n, cfg) == [fs EXCEPT ![k] = Stage(n, fs[k], cfg).midi]

WorkerStage(k, n) ==
  /\ pc = "loaded"
  /\ done[k] = n - 1
  /\ midis' = RunStage(midis, k, n, config)
  /\ prev' = midis
  /\ IF Stage(n, midis[k], config).threw
     THEN pc' = "failed" /\ err' = "TypeError" /\ done' = done
     ELSE pc' = pc /\ err' = err /\ done' = [done EXCEPT ![k] = n]
  /\ UNCHANGED <<inputs, config, run, firstRun, written>>

WorkerRemoveSilent == \E k \in DOMAIN midis : WorkerStage(k, 1) /\ impl' = impl

WorkerNormalizeVelocities == \E k \in DOMAIN midis : WorkerStage(k, 2) /\ impl' = impl

WorkerNormalizeChannels == \E k \in DOMAIN midis : WorkerStage(k, 3) /\ impl' = impl

WorkerAddBuffers == \E k \in DOMAIN midis : WorkerStage(k, 4) /\ impl' = "normalize.ts"

\* Every worker has finished.
WorkersJoin ==
  /\ pc = "loaded"
  /\ \A k \in DOMAIN midis : done[k] = 4
  /\ pc' = "buffersAdded"
  /\ UNCHANGED <<inputs, midis, config, done, run, impl, prev, firstRun, err, written>>

NextWorkers ==
  \/ LoadFiles
  \/ WorkerRemoveSilent
  \/ WorkerNormalizeVelocities
  \/ WorkerNormalizeChannels
  \/ WorkerAddBuffers
  \/ WorkersJoin
  \/ WriteFiles

\* Input directories of one to MaxFiles files, each file one of `files`
\* under a name of its own.
Directories(files) ==
  UNION {{[k \in 1..n |-> [f[k] EXCEPT !.path = ToString(k) \o ".mid"]] : f \in [1..n -> files]} :
         n \in 1..MaxFiles}

\* Files whose notes of channel 0 span different velocity ranges, with and
\* without silent notes and names, and a file without tracks.
BatchFiles ==
  { [path |-> "", data |-> [header |-> [format |-> 1, ticksPerBeat |-> 96],
                            tracks |-> << <<NoteOn(0, 60, 10, 0), NoteOn(0, 60, 20, 0),
                                            NoteOff(0, 60, 0, 5)>> >>]],
    [path |-> "", data |-> [header |-> [format |-> 1, ticksPerBeat |-> 96],
                            tracks |-> << <<TrackName(GrandPiano, 0), NoteOn(0, 60, 0, 0),
                                            NoteOn(0, 60, 100, 3)>>,
                                          <<EndOfTrack(0)>> >>]],
    [path |-> "", data |-> [header |-> [format |-> 1, ticksPerBeat |-> 96], tracks |-> <<>>]] }

BatchConfigs ==
  {[velocities |-> [min |-> 10, max |-> 100],
    channels |-> [match |-> <<[patterns |-> << <<"p", "i", "a", "n", "o">> >>, channel |-> 2]>>],
    misc |-> b] :
     b \in {NoBuffers, [startBuffer |-> Seconds(1, 1), endBuffer |-> Seconds(1, 1)]}}

InitWorkers == InitFrom(Directories(BatchFiles), BatchConfigs)

SpecWorkers == InitWorkers /\ [][NextWorkers]_vars

\* The result of taking one file alone through its first n stages.
RECURSIVE Alone(_, _, _)
Alone(midi, n, cfg) ==
  IF n = 0 THEN midi ELSE Stage(n, Alone(midi, n - 1, cfg), cfg).midi

\* The MidiObjs the input files are loaded as.
Loaded(files, rid) ==
  LET parsed == SelectSeq(files, IsParsed)
  IN [k \in DOMAIN parsed |-> LoadMidi(parsed[k].path, parsed[k].data, rid)]

Unreadable == [path |-> ""]

InitBatch == InitFrom(Directories(BatchFiles \cup {Unreadable}), BatchConfigs)

SpecBatch == InitBatch /\ [][Next]_vars

PathsOf(fs) == [k \in DOMAIN fs |-> fs[k].path]

ChannelsOf(track) == {track[k].channel : k \in {i \in DOMAIN track : HasChannel(track[i])}}

\* C14: with every rule channel in 1..16 and every input channel in 0..15,
\* every channel-bearing event has a channel in 0..15 after
\* normalizeChannels, and the events of a track remapped by a rule with
\* channel c carry c - 1.
C14_ChannelsZeroIndexed ==
  (/\ pc = "chNormalized"
   /\ \A r \in DOMAIN Rules : Rules[r].channel \in 1..16
   /\ \A t \in TracksOf(prev) : ChannelsOf(TrackAt(prev, t)) \subseteq 0..15) =>
    \A t \in TracksOf(midis) :
      /\ ChannelsOf(TrackAt(midis, t)) \subseteq 0..15
      /\ LET matching == MatchingRules(prev, t) IN
         matching # {} =>
           LET last == CHOOSE r \in matching : \A q \in matching : r >= q IN
           AllOnChannel(TrackAt(midis, t), Rules[last].channel - 1)

(***************************************************************************)
(* The pruning stage in the driver and as a splice.                        *)
(***************************************************************************)
\* The option velocities.removeSilent of the configuration (default false).
RemoveSilentOption(opts) == "removeSilent" \in DOMAIN opts /\ opts.removeSilent

\* C15: unless velocities.removeSilent is true, the pruning stage of the
\* driver leaves every track as it was.
C15_PruningIsOptIn ==
  (pc = "noSilent" /\ ~RemoveSilentOption(config.velocities)) =>
    \A t \in TracksOf(prev) : TrackAt(midis, t) = TrackAt(prev, t)

\* sub is full with some of its elements left out.
RECURSIVE IsSubsequence(_, _)
IsSubsequence(sub, full) ==
  IF sub = <<>> THEN TRUE
  ELSE IF full = <<>> THEN FALSE
  ELSE IF Head(sub) = Head(full) THEN IsSubsequence(Tail(sub), Tail(full))
  ELSE IsSubsequence(sub, Tail(full))

\* C16: after removeSilent every file has its tracks in their number and
\* order, each a subsequence of the original track: the events that are
\* left keep their order and every field, deltaTime included; nothing but
\* the tracks of a file changes.
C16_PruningIsPlainSplice ==
  pc = "noSilent" =>
    /\ DOMAIN midis = DOMAIN prev
    /\ \A f \in DOMAIN midis :
         /\ Len(midis[f].data.tracks) = Len(prev[f].data.tracks)
         /\ midis[f] = [prev[f] EXCEPT !.data.tracks = midis[f].data.tracks]
    /\ \A t \in TracksOf(midis) : IsSubsequence(TrackAt(midis, t), TrackAt(prev, t))

\* An event with a deltaTime above 0 has been removed from a track whose
\* last event, behind the removed one, is left.
C16_Witness ==
  /\ pc = "noSilent"
  /\ \E t \in TracksOf(prev) :
       LET before == TrackAt(prev, t)
           after == TrackAt(midis, t)
       IN /\ after # <<>>
          /\ Len(after) < Len(before)
          /\ after[Len(after)] = before[Len(before)]
          /\ \E k \in 1..(Len(before) - 1) :
               /\ before[k].deltaTime > 0
               /\ \A i \in DOMAIN after : after[i] # before[k]

(***************************************************************************)
(* What the velocity normalizer leaves alone.                              *)
(***************************************************************************)
\* Inputs: sounding noteOns of channel 0, a noteOff with a release velocity,
\* and a controller and a silent noteOn of channel 1, which has no sounding
\* noteOn.
FrameEvents ==
  { NoteOn(0, 60, 10, 0), NoteOn(0, 62, 100, 3), NoteOff(0, 60, 64, 5),
    Controller(1, 7), NoteOn(1, 61, 0, 0) }

FrameConfigs ==
  {[velocities |-> r, channels |-> NoRules, misc |-> NoBuffers] :
     r \in {[min |-> 20, max |-> 90], [min |-> 64, max |-> 64]}}

InitFrame ==
  InitWith(MidiDatas(FrameEvents, {[format |-> 1, ticksPerBeat |-> 96]}), FrameConfigs)

SpecFrame == InitFrame /\ [][Next]_vars

Nameless(fs, t) ==
  \A k \in DOMAIN TrackAt(fs, t) :
    TrackAt(fs, t)[k].type \notin {"instrumentName", "trackName"}

\* C18: normalizeChannels changes nothing but the channel of channel-bearing
\* events: every track keeps its length and every event its place and its
\* other fields, an event without a channel gains none, and a track that no
\* rule matches, as is every track without names, is left as it was.
C18_OnlyMatchedChannelsChange ==
  pc = "chNormalized" =>
    /\ DOMAIN midis = DOMAIN prev
    /\ \A f \in DOMAIN midis :
         /\ DOMAIN midis[f].data.tracks = DOMAIN prev[f].data.tracks
         /\ midis[f] = [prev[f] EXCEPT !.data.tracks = midis[f].data.tracks]
    /\ \A t \in TracksOf(prev) :
         LET before == TrackAt(prev, t)
             after == TrackAt(midis, t)
         IN /\ DOMAIN after = DOMAIN before
            /\ \A k \in DOMAIN before :
                 IF HasChannel(before[k])
                 THEN after[k] = [before[k] EXCEPT !.channel = after[k].channel]
                 ELSE after[k] = before[k]
            /\ MatchingRules(prev, t) = {} => after = before
            /\ Nameless(prev, t) => after = before

\* Under a rule that matches every name, a track without names has kept
\* the channel of its note, and a named track of the same file has been
\* remapped and holds an event without a channel.
C18_Witness ==
  /\ pc = "chNormalized"
  /\ \E r \in DOMAIN Rules : "patterns" \in DOMAIN Rules[r] /\ Rules[r].patterns = << <<".">> >>
  /\ \E t, u \in TracksOf(prev) :
       /\ t[1] = u[1]
       /\ Nameless(prev, t)
       /\ \E k \in DOMAIN TrackAt(prev, t) : HasChannel(TrackAt(prev, t)[k])
       /\ TrackAt(midis, u) # TrackAt(prev, u)
       /\ \E k \in DOMAIN TrackAt(prev, u) : ~HasChannel(TrackAt(prev, u)[k])

(***************************************************************************)
(* Timing and place of the end buffer.                                     *)
(***************************************************************************)
\* The track as the end-buffer step finds it: after the start-buffer step.
AfterStartBuffer(fs, t) ==
  IF IsSet(config.misc, "startBuffer")
  THEN ShiftTrack(TrackAt(fs, t), BufferTicks(config.misc.startBuffer, TicksPerBeat(fs[t[1]])))
  ELSE TrackAt(fs, t)

NoteIndices(track) == {k \in DOMAIN track : track[k].type \in {"noteOn", "noteOff"}}

C20_SoundingStaysSounding ==
  (pc = "velNormalized" /\ ValidRange(config.velocities)) =>
    \A p \in Positions(prev) :
      IsSoundingNoteOn(EventAt(prev, p)) => EventAt(midis, p).velocity > 0

====
